---- MODULE Spec2Model ----
(***************************************************************************)
(* libfoxenmem: the lock-free slot pool (fx_mem_pool_alloc and             *)
(* fx_mem_pool_free, src/foxen/mem.c) and the layout helpers               *)
(* (fx_mem_init_size, fx_mem_update_size, fx_mem_align, src/foxen/mem.h).  *)
(*                                                                         *)
(* Every atomic access of the pool code is one action; the callers are the *)
(* threads of src/test/test_mem_alloc.c, generalised to arbitrary          *)
(* claim/release sequences that release only indices they hold.            *)
(*                                                                         *)
(* Machine words are kept at their width.  A word is a little-endian       *)
(* sequence of 16-bit limbs (a uint32_t has two, a uintptr_t four), so     *)
(* that wrap-around is computed exactly.  Slot indices stay below          *)
(* n_available and are kept as naturals; a bitmap word is the set of its   *)
(* set bit positions.                                                      *)
(***************************************************************************)
EXTENDS Integers, Sequences, FiniteSets, TLC

(***************************************************************************)
(* Bounds of the model.                                                    *)
(***************************************************************************)
NCallers == 2
MaxAvailable == 3

(***************************************************************************)
(* Program constants.                                                      *)
(***************************************************************************)
FX_ALIGN == 16
FX_BMEW == 32
Limb == 2 ^ 16
U32Limbs == 2
PtrLimbs == 4

Callers == 1..NCallers

(***************************************************************************)
(* Fixed-width unsigned arithmetic on limb sequences.                      *)
(***************************************************************************)
RECURSIVE NatToWord(_, _)
NatToWord(n, k) ==
  IF k = 0 THEN <<>> ELSE <<n % Limb>> \o NatToWord(n \div Limb, k - 1)

RECURSIVE AddLimbs(_, _, _)
AddLimbs(a, b, c) ==
  IF a = <<>> THEN <<>>
  ELSE LET s == Head(a) + Head(b) + c
       IN  <<s % Limb>> \o AddLimbs(Tail(a), Tail(b), s \div Limb)

RECURSIVE SubLimbs(_, _, _)
SubLimbs(a, b, c) ==
  IF a = <<>> THEN <<>>
  ELSE LET d == Head(a) - Head(b) - c
       IN  <<d % Limb>> \o SubLimbs(Tail(a), Tail(b), IF d < 0 THEN 1 ELSE 0)

WordAdd(a, b) == AddLimbs(a, b, 0)
WordSub(a, b) == SubLimbs(a, b, 0)

RECURSIVE WordLt(_, _)
WordLt(a, b) ==
  IF a = <<>> THEN FALSE
  ELSE LET n == Len(a)
       IN  IF a[n] # b[n] THEN a[n] < b[n]
           ELSE WordLt(SubSeq(a, 1, n - 1), SubSeq(b, 1, n - 1))

U32(n) == NatToWord(n, U32Limbs)
Ptr(n) == NatToWord(n, PtrLimbs)

\* a word from its 16-bit halves, most significant first
U32Of(hi, lo) == <<lo, hi>>

\* conversion of a uint32_t to uintptr_t
Widen(a) == a \o [i \in 1..(PtrLimbs - Len(a)) |-> 0]

WordLe(a, b) == ~WordLt(b, a)

\* x & ~(FX_ALIGN - 1)
ClearLow(a) == [a EXCEPT ![1] = @ - (@ % FX_ALIGN)]

(***************************************************************************)
(* Bitmap words: FX_BMEW bits each, a word is the set of its set bits.     *)
(***************************************************************************)
NWords(n) == (n + FX_BMEW - 1) \div FX_BMEW
BitOf(i) == i % FX_BMEW
SlotOf(i) == i \div FX_BMEW
SetBits(bitmap) ==
  {i \in 0..(FX_BMEW * Len(bitmap) - 1) : BitOf(i) \in bitmap[SlotOf(i) + 1]}

VARIABLES
  n_available,      \* capacity handed to every call
  allocated_ptr,    \* the bitmap: sequence of words, word w at position w + 1
  free_idx_ptr,     \* *free_idx_ptr, the search hint
  n_allocated_ptr,  \* *n_allocated_ptr, the allocation counter (uint32_t)
  pc,               \* per caller: position in fx_mem_pool_alloc / _free
  idx,              \* per caller: local idx (alloc) or argument idx (free)
  allocated,        \* per caller: local copy of a bitmap word
  n_allocated,      \* per caller: local copy of the counter (uint32_t)
  free_idx,         \* per caller: local copy of the hint (free only)
  ret,              \* per caller: value being returned by fx_mem_pool_alloc
  held,             \* per caller: indices returned to it and not yet released
  call,             \* per caller: "none", or how the operation in flight ran
                    \* so far: "solo" (no other operation overlapped it),
                    \* "solofull" (solo, called on a full pool), "overlap"
  prev,             \* index freed by the operation that completed last if
                    \* that was a "solofull" release, else NoIdx
  hist,             \* "claims": only non-overlapping claims so far; "seq":
                    \* only non-overlapping calls so far; "any" otherwise
  probes,           \* outer-loop iterations begun by the claim in flight while
                    \* no other operation has overlapped it, else 0
  lpc,              \* layout: "off", "start", "sizing" or "carving"
  size,             \* layout: the size accumulator (uint32_t)
  ok,               \* layout: value returned by the last fx_mem_*_size call
  sizes,            \* layout: the n_bytes handed to fx_mem_update_size so far
  wrapped,          \* layout: some extension did not fit the accumulator
  base,             \* layout: address the carving starts from (uintptr_t)
  mem,              \* layout: the cursor *mem (uintptr_t)
  res,              \* layout: the addresses returned by fx_mem_align so far
  carved            \* layout: the sizes handed to fx_mem_align so far

layout == <<lpc, size, ok, sizes, wrapped, base, mem, res, carved>>

pool == <<n_available, allocated_ptr, free_idx_ptr, n_allocated_ptr, pc, idx,
          allocated, n_allocated, free_idx, ret, held, call, prev, hist,
          probes>>

vars == <<pool, layout>>

shared == <<allocated_ptr, free_idx_ptr, n_allocated_ptr>>

NoIdx == 0 - 1
NoWord == {}
NoCount == U32(0)

Min(a, b) == IF a <= b THEN a ELSE b

InFlight(t) == pc[t] # "idle"
OthersIdle(t) == \A u \in Callers \ {t} : ~InFlight(u)
Full == SetBits(allocated_ptr) = 0..(n_available - 1)
            /\ n_allocated_ptr = U32(n_available)
Demand(t) == Cardinality(held[t]) + (IF InFlight(t) THEN 1 ELSE 0)

(***************************************************************************)
(* _test_reset: the pool is zero-initialised.                              *)
(***************************************************************************)
PoolInit ==
  /\ n_available \in 1..MaxAvailable
  /\ allocated_ptr = [w \in 1..NWords(n_available) |-> {}]
  /\ free_idx_ptr = 0
  /\ n_allocated_ptr = U32(0)
  /\ pc = [t \in Callers |-> "idle"]
  /\ idx = [t \in Callers |-> 0]
  /\ allocated = [t \in Callers |-> NoWord]
  /\ n_allocated = [t \in Callers |-> NoCount]
  /\ free_idx = [t \in Callers |-> 0]
  /\ ret = [t \in Callers |-> 0]
  /\ held = [t \in Callers |-> {}]
  /\ call = [t \in Callers |-> "none"]
  /\ prev = NoIdx
  /\ hist = "claims"
  /\ probes = 0

LayoutOff ==
  /\ lpc = "off"
  /\ size = U32(0)
  /\ ok = TRUE
  /\ sizes = <<>>
  /\ wrapped = FALSE
  /\ base = Ptr(0)
  /\ mem = Ptr(0)
  /\ res = <<>>
  /\ carved = <<>>

Init == PoolInit /\ LayoutOff

(***************************************************************************)
(* Bookkeeping at the call and at the return of an operation.              *)
(***************************************************************************)
Begin(t, op) ==
  /\ call' = [u \in Callers |->
                IF u = t
                  THEN IF ~OthersIdle(t) THEN "overlap"
                       ELSE IF Full THEN "solofull" ELSE "solo"
                  ELSE IF InFlight(u) THEN "overlap" ELSE call[u]]
  /\ hist' = IF ~OthersIdle(t) THEN "any"
             ELSE IF op = "release" /\ hist = "claims" THEN "seq"
             ELSE hist
  /\ probes' = 0

End(t, op, i) ==
  /\ probes' = 0
  /\ prev' = IF op = "release" /\ call[t] = "solofull" THEN i ELSE NoIdx
  /\ call' = [call EXCEPT ![t] = "none"]

(***************************************************************************)
(* fx_mem_pool_alloc                                                       *)
(***************************************************************************)
AllocCall(t) ==
  /\ pc[t] = "idle"
  /\ pc' = [pc EXCEPT ![t] = "a_load_idx"]
  /\ Begin(t, "claim")
  /\ UNCHANGED <<layout, n_available, shared, idx, allocated, n_allocated, free_idx,
                 ret, held, prev>>

\* line 44: idx = load(free_idx_ptr)
AllocLoadIdx(t) ==
  /\ pc[t] = "a_load_idx"
  /\ idx' = [idx EXCEPT ![t] = free_idx_ptr]
  /\ pc' = [pc EXCEPT ![t] = "a_cas_idx"]
  /\ probes' = IF call[t] \in {"solo", "solofull"}
                 THEN Min(probes + 1, MaxAvailable + 1) ELSE 0
  /\ UNCHANGED <<layout, n_available, shared, allocated, n_allocated, free_idx, ret,
                 held, call, prev, hist>>

\* lines 45-48: strong CAS of the hint to (idx + 1) % n_available; a failure
\* reloads idx and retries.
NextIdxSkip(i, n) == (i + 2) % n

NextIdxStay(i, n) == i % n

NextIdxNoWrap(i, n) == i + 1

NextIdx(i, n) == (i + 1) % n

AllocCasIdx(t) ==
  /\ pc[t] = "a_cas_idx"
  /\ IF free_idx_ptr = idx[t]
       THEN /\ free_idx_ptr' = NextIdx(idx[t], n_available)
            /\ pc' = [pc EXCEPT ![t] = "a_load_n"]
            /\ idx' = idx
       ELSE /\ idx' = [idx EXCEPT ![t] = free_idx_ptr]
            /\ UNCHANGED <<free_idx_ptr, pc>>
  /\ UNCHANGED <<layout, n_available, probes, allocated_ptr, n_allocated_ptr, allocated,
                 n_allocated, free_idx, ret, held, call, prev, hist>>

\* lines 56-60: load the counter, report exhaustion when it is >= n_available
ExhaustedEarly(n, avail) == ~WordLt(WordAdd(n, U32(1)), U32(avail))

Exhausted(n, avail) == ~WordLt(n, U32(avail))

SentinelLast(avail) == avail - 1

Sentinel(avail) == avail

AllocLoadN(t) ==
  /\ pc[t] = "a_load_n"
  /\ n_allocated' = [n_allocated EXCEPT ![t] = n_allocated_ptr]
  /\ IF Exhausted(n_allocated_ptr, n_available)
       THEN /\ ret' = [ret EXCEPT ![t] = Sentinel(n_available)]
            /\ pc' = [pc EXCEPT ![t] = "a_ret"]
       ELSE /\ pc' = [pc EXCEPT ![t] = "a_load_w"]
            /\ ret' = ret
  /\ UNCHANGED <<layout, n_available, probes, shared, idx, allocated, free_idx, held, call,
                 prev, hist>>

\* lines 64-65, 72-74: load the bitmap word of idx; a set bit restarts the
\* outer loop
AllocLoadWord(t) ==
  /\ pc[t] = "a_load_w"
  /\ IF BitOf(idx[t]) \in allocated_ptr[SlotOf(idx[t]) + 1]
       THEN /\ pc' = [pc EXCEPT ![t] = "a_load_idx"]
            /\ idx' = [idx EXCEPT ![t] = 0]
            /\ n_allocated' = [n_allocated EXCEPT ![t] = NoCount]
            /\ allocated' = allocated
       ELSE /\ pc' = [pc EXCEPT ![t] = "a_cas_w"]
            /\ allocated' = [allocated EXCEPT ![t] =
                               allocated_ptr[SlotOf(idx[t]) + 1]]
            /\ UNCHANGED <<idx, n_allocated>>
  /\ UNCHANGED <<layout, n_available, probes, shared, free_idx, ret, held, call, prev, hist>>

\* lines 75-77: strong CAS of the word to allocated | mask; a failure restarts
\* the outer loop
ClaimBit(word, i) == word \cup {BitOf(i)}

AllocCasWordBlind(t) ==
  /\ pc[t] = "a_cas_w"
  /\ allocated_ptr' = [allocated_ptr EXCEPT ![SlotOf(idx[t]) + 1] =
                         ClaimBit(allocated[t], idx[t])]
  /\ pc' = [pc EXCEPT ![t] = "a_inc"]
  /\ allocated' = [allocated EXCEPT ![t] = NoWord]
  /\ UNCHANGED <<layout, n_available, probes, free_idx_ptr, n_allocated_ptr, idx, n_allocated,
                 free_idx, ret, held, call, prev, hist>>

AllocCasWord(t) ==
  /\ pc[t] = "a_cas_w"
  /\ IF allocated_ptr[SlotOf(idx[t]) + 1] = allocated[t]
       THEN /\ allocated_ptr' = [allocated_ptr EXCEPT ![SlotOf(idx[t]) + 1] =
                                   ClaimBit(allocated[t], idx[t])]
            /\ pc' = [pc EXCEPT ![t] = "a_inc"]
            /\ UNCHANGED <<idx, n_allocated>>
       ELSE /\ pc' = [pc EXCEPT ![t] = "a_load_idx"]
            /\ idx' = [idx EXCEPT ![t] = 0]
            /\ n_allocated' = [n_allocated EXCEPT ![t] = NoCount]
            /\ allocated_ptr' = allocated_ptr
  /\ allocated' = [allocated EXCEPT ![t] = NoWord]
  /\ UNCHANGED <<layout, n_available, probes, free_idx_ptr, n_allocated_ptr, free_idx, ret,
                 held, call, prev, hist>>

\* lines 83-88: CAS loop incrementing the counter, then return idx.  A failed
\* exchange reloads the expected value and retries.
CountUpTwice(n) == WordAdd(n, U32(2))

CountUp(n) == WordAdd(n, U32(1))

AllocIncBlind(t) ==
  /\ pc[t] = "a_inc"
  /\ n_allocated_ptr' = CountUp(n_allocated[t])
  /\ ret' = [ret EXCEPT ![t] = idx[t]]
  /\ pc' = [pc EXCEPT ![t] = "a_ret"]
  /\ UNCHANGED <<layout, n_available, probes, allocated_ptr, free_idx_ptr, idx, allocated,
                 n_allocated, free_idx, held, call, prev, hist>>

AllocIncChecked(t) ==
  /\ pc[t] = "a_inc"
  /\ IF Exhausted(n_allocated_ptr, n_available)
       THEN /\ ret' = [ret EXCEPT ![t] = Sentinel(n_available)]
            /\ pc' = [pc EXCEPT ![t] = "a_ret"]
            /\ UNCHANGED <<n_allocated_ptr, n_allocated>>
       ELSE IF n_allocated_ptr = n_allocated[t]
         THEN /\ n_allocated_ptr' = CountUp(n_allocated[t])
              /\ ret' = [ret EXCEPT ![t] = idx[t]]
              /\ pc' = [pc EXCEPT ![t] = "a_ret"]
              /\ n_allocated' = n_allocated
         ELSE /\ n_allocated' = [n_allocated EXCEPT ![t] = n_allocated_ptr]
              /\ UNCHANGED <<n_allocated_ptr, ret, pc>>
  /\ UNCHANGED <<layout, n_available, probes, allocated_ptr, free_idx_ptr, idx, allocated,
                 free_idx, held, call, prev, hist>>

AllocInc(t) ==
  /\ pc[t] = "a_inc"
  /\ IF n_allocated_ptr = n_allocated[t]
       THEN /\ n_allocated_ptr' = CountUp(n_allocated[t])
            /\ ret' = [ret EXCEPT ![t] = idx[t]]
            /\ pc' = [pc EXCEPT ![t] = "a_ret"]
            /\ n_allocated' = n_allocated
       ELSE /\ n_allocated' = [n_allocated EXCEPT ![t] = n_allocated_ptr]
            /\ UNCHANGED <<n_allocated_ptr, ret, pc>>
  /\ UNCHANGED <<layout, n_available, probes, allocated_ptr, free_idx_ptr, idx, allocated,
                 free_idx, held, call, prev, hist>>

\* lines 59, 88: the value reaches the caller, who owns a valid index from now
AllocReturn(t) ==
  /\ pc[t] = "a_ret"
  /\ held' = [held EXCEPT ![t] =
                IF ret[t] < n_available THEN @ \cup {ret[t]} ELSE @]
  /\ pc' = [pc EXCEPT ![t] = "idle"]
  /\ idx' = [idx EXCEPT ![t] = 0]
  /\ n_allocated' = [n_allocated EXCEPT ![t] = NoCount]
  /\ ret' = [ret EXCEPT ![t] = 0]
  /\ End(t, "claim", ret[t])
  /\ UNCHANGED <<layout, n_available, shared, allocated, free_idx, hist>>

(***************************************************************************)
(* fx_mem_pool_free                                                        *)
(***************************************************************************)
\* test_mem_alloc.c line 119: a caller frees an index it holds
FreeCall(t, k) ==
  /\ pc[t] = "idle"
  /\ k \in held[t]
  /\ held' = [held EXCEPT ![t] = @ \ {k}]
  /\ idx' = [idx EXCEPT ![t] = k]
  /\ pc' = [pc EXCEPT ![t] = "f_load_w"]
  /\ Begin(t, "release")
  /\ UNCHANGED <<layout, n_available, shared, allocated, n_allocated, free_idx, ret,
                 prev>>

\* line 100: the expected word is loaded from allocated_ptr[0], not from the
\* word of idx
FreeLoadWord(t) ==
  /\ pc[t] = "f_load_w"
  /\ allocated' = [allocated EXCEPT ![t] = allocated_ptr[1]]
  /\ pc' = [pc EXCEPT ![t] = "f_load_n"]
  /\ UNCHANGED <<layout, n_available, probes, shared, idx, n_allocated, free_idx, ret, held,
                 call, prev, hist>>

\* line 101
FreeLoadN(t) ==
  /\ pc[t] = "f_load_n"
  /\ n_allocated' = [n_allocated EXCEPT ![t] = n_allocated_ptr]
  /\ pc' = [pc EXCEPT ![t] = "f_load_idx"]
  /\ UNCHANGED <<layout, n_available, probes, shared, idx, allocated, free_idx, ret, held,
                 call, prev, hist>>

\* line 102
FreeLoadIdx(t) ==
  /\ pc[t] = "f_load_idx"
  /\ free_idx' = [free_idx EXCEPT ![t] = free_idx_ptr]
  /\ pc' = [pc EXCEPT ![t] = "f_cas_w"]
  /\ UNCHANGED <<layout, n_available, probes, shared, idx, allocated, n_allocated, ret, held,
                 call, prev, hist>>

\* lines 105-109: CAS loop clearing the bit of idx in its word
ReleaseBit(word, i) == word \ {BitOf(i)}

FreeCasWordBlind(t) ==
  /\ pc[t] = "f_cas_w"
  /\ allocated_ptr' = [allocated_ptr EXCEPT ![SlotOf(idx[t]) + 1] =
                         ReleaseBit(allocated[t], idx[t])]
  /\ allocated' = [allocated EXCEPT ![t] = NoWord]
  /\ pc' = [pc EXCEPT ![t] = "f_dec"]
  /\ UNCHANGED <<layout, n_available, probes, free_idx_ptr, n_allocated_ptr, idx, n_allocated,
                 free_idx, ret, held, call, prev, hist>>

FreeCasWord(t) ==
  /\ pc[t] = "f_cas_w"
  /\ IF allocated_ptr[SlotOf(idx[t]) + 1] = allocated[t]
       THEN /\ allocated_ptr' = [allocated_ptr EXCEPT ![SlotOf(idx[t]) + 1] =
                                   ReleaseBit(allocated[t], idx[t])]
            /\ allocated' = [allocated EXCEPT ![t] = NoWord]
            /\ pc' = [pc EXCEPT ![t] = "f_dec"]
       ELSE /\ allocated' = [allocated EXCEPT ![t] =
                               allocated_ptr[SlotOf(idx[t]) + 1]]
            /\ UNCHANGED <<allocated_ptr, pc>>
  /\ UNCHANGED <<layout, n_available, probes, free_idx_ptr, n_allocated_ptr, idx, n_allocated,
                 free_idx, ret, held, call, prev, hist>>

\* lines 115-118: CAS loop decrementing the counter
CountDownNot(n) == n

CountDownTwice(n) == WordSub(n, U32(2))

CountDown(n) == WordSub(n, U32(1))

FreeDecBlind(t) ==
  /\ pc[t] = "f_dec"
  /\ n_allocated_ptr' = CountDown(n_allocated[t])
  /\ n_allocated' = [n_allocated EXCEPT ![t] = NoCount]
  /\ pc' = [pc EXCEPT ![t] = "f_hint"]
  /\ UNCHANGED <<layout, n_available, probes, allocated_ptr, free_idx_ptr, idx, allocated,
                 free_idx, ret, held, call, prev, hist>>

FreeDec(t) ==
  /\ pc[t] = "f_dec"
  /\ IF n_allocated_ptr = n_allocated[t]
       THEN /\ n_allocated_ptr' = CountDown(n_allocated[t])
            /\ n_allocated' = [n_allocated EXCEPT ![t] = NoCount]
            /\ pc' = [pc EXCEPT ![t] = "f_hint"]
       ELSE /\ n_allocated' = [n_allocated EXCEPT ![t] = n_allocated_ptr]
            /\ UNCHANGED <<n_allocated_ptr, pc>>
  /\ UNCHANGED <<layout, n_available, probes, allocated_ptr, free_idx_ptr, idx, allocated,
                 free_idx, ret, held, call, prev, hist>>

\* lines 128-133: while idx <= free_idx, try to CAS the hint to idx; then
\* return
LowersHintAlways(i, hint) == TRUE

LowersHintInverted(i, hint) == i > hint

LowersHint(i, hint) == i <= hint

FreeHint(t) ==
  /\ pc[t] = "f_hint"
  /\ IF LowersHint(idx[t], free_idx[t]) /\ free_idx_ptr # free_idx[t]
       THEN /\ free_idx' = [free_idx EXCEPT ![t] = free_idx_ptr]
            /\ UNCHANGED <<free_idx_ptr, pc, idx, call, prev, probes>>
       ELSE /\ free_idx_ptr' = IF LowersHint(idx[t], free_idx[t])
                                 THEN idx[t] ELSE free_idx_ptr
            /\ pc' = [pc EXCEPT ![t] = "idle"]
            /\ idx' = [idx EXCEPT ![t] = 0]
            /\ free_idx' = [free_idx EXCEPT ![t] = 0]
            /\ End(t, "release", idx[t])
  /\ UNCHANGED <<layout, n_available, allocated_ptr, n_allocated_ptr, allocated,
                 n_allocated, ret, held, hist>>

Step(t) ==
  \/ AllocCall(t)
  \/ AllocLoadIdx(t)
  \/ AllocCasIdx(t)
  \/ AllocLoadN(t)
  \/ AllocLoadWord(t)
  \/ AllocCasWord(t)
  \/ AllocInc(t)
  \/ AllocReturn(t)
  \/ \E k \in 0..(n_available - 1) : FreeCall(t, k)
  \/ FreeLoadWord(t)
  \/ FreeLoadN(t)
  \/ FreeLoadIdx(t)
  \/ FreeCasWord(t)
  \/ FreeDec(t)
  \/ FreeHint(t)

Next == \E t \in Callers : Step(t)

Spec == Init /\ [][Next]_vars

(***************************************************************************)
(* The steps of an operation in flight.  A weak compare-exchange that      *)
(* fails spuriously reloads the value it expected and retries: that is a   *)
(* stuttering step, which [Next]_vars allows.  LiveSpec schedules caller 1 *)
(* whenever it has an operation in flight; every other caller may be       *)
(* suspended at any point, for ever.                                       *)
(***************************************************************************)
Run(t) ==
  \/ AllocLoadIdx(t)
  \/ AllocCasIdx(t)
  \/ AllocLoadN(t)
  \/ AllocLoadWord(t)
  \/ AllocCasWord(t)
  \/ AllocInc(t)
  \/ AllocReturn(t)
  \/ FreeLoadWord(t)
  \/ FreeLoadN(t)
  \/ FreeLoadIdx(t)
  \/ FreeCasWord(t)
  \/ FreeDec(t)
  \/ FreeHint(t)

LiveSpec == Init /\ [][Next]_vars /\ WF_vars(Run(1))

(***************************************************************************)
(* A pool whose bitmap has more than one word.  The callers start on the   *)
(* pool as test_mem_alloc_free_simple leaves it after its first            *)
(* FX_BMEW - 1 claims, which are never released: indices 0 .. FX_BMEW - 2  *)
(* are allocated, the counter and the hint are FX_BMEW - 1.  WideFree      *)
(* slots are left, the first one in word 0 and the others in word 1, whose *)
(* high bits are not part of the pool.                                     *)
(***************************************************************************)
WideFree == 2

Prefilled == FX_BMEW - 1

WideInit ==
  /\ LayoutOff
  /\ n_available = Prefilled + WideFree
  /\ allocated_ptr = [w \in 1..NWords(n_available) |->
                        IF w = 1 THEN 0..(Prefilled - 1) ELSE {}]
  /\ free_idx_ptr = Prefilled % n_available
  /\ n_allocated_ptr = U32(Prefilled)
  /\ pc = [t \in Callers |-> "idle"]
  /\ idx = [t \in Callers |-> 0]
  /\ allocated = [t \in Callers |-> NoWord]
  /\ n_allocated = [t \in Callers |-> NoCount]
  /\ free_idx = [t \in Callers |-> 0]
  /\ ret = [t \in Callers |-> 0]
  /\ held = [t \in Callers |-> {}]
  /\ call = [t \in Callers |-> "none"]
  /\ prev = NoIdx
  /\ hist = "any"
  /\ probes = 0

WideSpec == WideInit /\ [][Next]_vars

(***************************************************************************)
(* Layout helpers (src/foxen/mem.h), driven as complex_matrix_size and     *)
(* complex_matrix_init of src/test/test_mem.c drive them: fx_mem_init_size,*)
(* a chain of fx_mem_update_size that stops at the first false, then one   *)
(* fx_mem_align per size from a base address.                              *)
(***************************************************************************)
MaxChain == 3

\* n_bytes values: small ones (24 and 256 are those of test_example_code), and
\* ones next to the top of the uint32_t range
ByteCounts ==
  {U32(0), U32(1), U32(12), U32(16), U32(17), U32(24), U32(256),
   U32Of(65535, 65488),    \* 0xFFFFFFD0
   U32Of(65535, 65505),    \* 0xFFFFFFE1
   U32Of(65535, 65521),    \* 0xFFFFFFF1
   U32Of(65535, 65535)}    \* 0xFFFFFFFF

\* base addresses: 0xABC0 (test_align_addr) misaligned by 0 .. FX_ALIGN - 1
Bases == {Ptr(43968 + i) : i \in 0..(FX_ALIGN - 1)}

\* an uninitialised accumulator holds any value
Garbage == {U32(0), U32(1), U32Of(65535, 65535)}

\* FX_ALIGN_ADDR, lines 58-60
AlignAddrOver(p) == ClearLow(WordAdd(p, NatToWord(FX_ALIGN, Len(p))))

FX_ALIGN_ADDR(p) == ClearLow(WordAdd(p, NatToWord(FX_ALIGN - 1, Len(p))))

\* fx_mem_update_size, lines 88-96: the new accumulator and the return value
RoundedSumNoPad(s, n) == WordAdd(s, n)

RoundedSumPadFirst(s, n) == WordAdd(FX_ALIGN_ADDR(s), n)

RoundedSum(s, n) == FX_ALIGN_ADDR(WordAdd(s, n))

OverflowSeen(new, old) == WordLt(new, old)

UpdateSizeStoreFirst(s, n) ==
  LET new_size == RoundedSum(s, n)
  IN  [ok |-> ~OverflowSeen(new_size, s), size |-> new_size]

UpdateSize(s, n) ==
  LET new_size == RoundedSum(s, n)
  IN  IF OverflowSeen(new_size, s)
        THEN [ok |-> FALSE, size |-> s]
        ELSE [ok |-> TRUE, size |-> new_size]

\* The exact value of the accumulator rounded up to FX_ALIGN plus n, and of
\* that sum rounded up, need more than 32 bits.
Fits32(w) == \A i \in (U32Limbs + 1)..Len(w) : w[i] = 0
ExactSum(s, n) == WordAdd(FX_ALIGN_ADDR(Widen(s)), Widen(n))
SumWraps(s, n) == ~Fits32(ExactSum(s, n))
Wraps(s, n) == SumWraps(s, n) \/ ~Fits32(FX_ALIGN_ADDR(ExactSum(s, n)))

LayoutInit ==
  /\ PoolInit
  /\ n_available = 1
  /\ lpc = "start"
  /\ size \in Garbage
  /\ ok = TRUE
  /\ sizes = <<>>
  /\ wrapped = FALSE
  /\ base = Ptr(0)
  /\ mem = Ptr(0)
  /\ res = <<>>
  /\ carved = <<>>

\* fx_mem_init_size, lines 72-75
MemInitSizeNoHeadroom ==
  /\ lpc = "start"
  /\ size' = U32(0)
  /\ ok' = TRUE
  /\ lpc' = "sizing"
  /\ UNCHANGED <<pool, sizes, wrapped, base, mem, res, carved>>

MemInitSize ==
  /\ lpc = "start"
  /\ size' = U32(FX_ALIGN)
  /\ ok' = TRUE
  /\ lpc' = "sizing"
  /\ UNCHANGED <<pool, sizes, wrapped, base, mem, res, carved>>

\* fx_mem_update_size, chained with && (test_mem.c lines 35-38)
MemUpdateSize(n) ==
  /\ lpc = "sizing"
  /\ ok
  /\ Len(sizes) < MaxChain
  /\ size' = UpdateSize(size, n).size
  /\ ok' = UpdateSize(size, n).ok
  /\ sizes' = Append(sizes, n)
  /\ wrapped' = (wrapped \/ Wraps(size, n))
  /\ UNCHANGED <<pool, lpc, base, mem, res, carved>>

\* complex_matrix_init is handed the buffer (test_mem.c line 103)
Carve(b) ==
  /\ lpc = "sizing"
  /\ ok
  /\ lpc' = "carving"
  /\ base' = b
  /\ mem' = b
  /\ UNCHANGED <<pool, size, ok, sizes, wrapped, res, carved>>

\* fx_mem_align, lines 108-112: returns the cursor rounded up and advances the
\* cursor by the size it is handed
MemAlign(n) ==
  /\ lpc = "carving"
  /\ res' = Append(res, FX_ALIGN_ADDR(mem))
  /\ mem' = WordAdd(FX_ALIGN_ADDR(mem), Widen(n))
  /\ carved' = Append(carved, n)
  /\ UNCHANGED <<pool, lpc, size, ok, sizes, wrapped, base>>

\* complex_matrix_init calls fx_mem_align once per sub-structure that was
\* sized, with the size that was handed to fx_mem_update_size (test_mem.c
\* line 45) or with the number of elements, width * height (lines 47-48)
ElementCounts == {U32(64)}

CarveCounts ==
  IF Len(carved) < Len(sizes)
    THEN {sizes[Len(carved) + 1]} \cup ElementCounts
    ELSE {}

LayoutNext ==
  \/ MemInitSize
  \/ \E n \in ByteCounts : MemUpdateSize(n)
  \/ \E b \in Bases : Carve(b)
  \/ \E n \in CarveCounts : MemAlign(n)

LayoutSpec == LayoutInit /\ [][LayoutNext]_vars

(***************************************************************************)
(* fx_mem_align on its own: up to MaxChain calls in a row, each with a     *)
(* size of ByteCounts, from any cursor of Cursors, which holds the         *)
(* addresses of test_align_addr (0xABC0 + 0 .. FX_ALIGN) and the last      *)
(* 2 * FX_ALIGN addresses of the uintptr_t range.                          *)
(***************************************************************************)
Cursors ==
  {Ptr(43968 + i) : i \in 0..FX_ALIGN}
    \cup {WordSub(Ptr(0), Ptr(i)) : i \in 1..(2 * FX_ALIGN)}

AlignInit ==
  /\ PoolInit
  /\ n_available = 1
  /\ lpc = "carving"
  /\ size = U32(0)
  /\ ok = TRUE
  /\ sizes = <<>>
  /\ wrapped = FALSE
  /\ base \in Cursors
  /\ mem = base
  /\ res = <<>>
  /\ carved = <<>>

AlignCounts == IF Len(carved) < MaxChain THEN ByteCounts ELSE {}

AlignNext == \E n \in AlignCounts : MemAlign(n)

AlignSpec == AlignInit /\ [][AlignNext]_vars

(***************************************************************************)
(* Bookkeeping shared by the properties.                                  *)
(***************************************************************************)
RECURSIVE HeldBy(_)
HeldBy(S) ==
  IF S = {} THEN 0
  ELSE LET t == CHOOSE x \in S : TRUE
       IN  Cardinality(held[t]) + HeldBy(S \ {t})

HeldCount == HeldBy(Callers)

MaxDemand == CHOOSE d \in {Demand(t) : t \in Callers} :
               \A u \in Callers : Demand(u) <= d

Completes(t) == AllocReturn(t) \/ (FreeHint(t) /\ pc'[t] = "idle")

FreeStepBeforeHint(t) ==
  \/ \E k \in 0..(n_available - 1) : FreeCall(t, k)
  \/ FreeLoadWord(t)
  \/ FreeLoadN(t)
  \/ FreeLoadIdx(t)
  \/ FreeCasWord(t)
  \/ FreeDec(t)

(***************************************************************************)
(* C1 -- No double-allocation: in every interleaving of claims and         *)
(* releases of held indices, no two callers hold the same index, and a     *)
(* claim never returns an index that some caller still holds.              *)
(***************************************************************************)
NoDoubleAllocation ==
  /\ \A t, u \in Callers : t # u => held[t] \cap held[u] = {}
  /\ \A t \in Callers :
       pc[t] = "a_ret" /\ ret[t] < n_available
         => \A u \in Callers : ret[t] \notin held[u]

NoDoubleAllocationWitness ==
  /\ pc[1] = "a_ret" /\ ret[1] < n_available /\ call[1] = "overlap"
  /\ held[1] # {} /\ held[2] # {}
  /\ pc[2] = "f_dec"

(***************************************************************************)
(* C2 -- Sequential determinism: from the zero-initialised pool, while     *)
(* only non-overlapping claims have been made and fewer than n_available   *)
(* of them have returned, the claim that returns after i earlier ones      *)
(* returns i, and the counter is i + 1 at that moment.                     *)
(***************************************************************************)
SequentialDeterminism ==
  \A t \in Callers :
    hist = "claims" /\ pc[t] = "a_ret" /\ HeldCount < n_available
      => ret[t] = HeldCount /\ n_allocated_ptr = U32(HeldCount + 1)

SequentialDeterminismWitness ==
  /\ hist = "claims" /\ pc[1] = "a_ret"
  /\ n_available = MaxAvailable
  /\ HeldCount = n_available - 1 /\ ret[1] = n_available - 1

(***************************************************************************)
(* C3 -- Exhaustion: while all n_available slots are held (n_available     *)
(* claims have succeeded and none has been released), every claim that     *)
(* returns returns the sentinel n_available, which is no valid index.      *)
(***************************************************************************)
Exhaustion ==
  \A t \in Callers :
    pc[t] = "a_ret" /\ HeldCount = n_available
      => ret[t] = n_available /\ ret[t] \notin 0..(n_available - 1)

ExhaustionWitness ==
  /\ hist = "claims" /\ HeldCount = n_available /\ n_available = MaxAvailable
  /\ pc[1] = "a_ret" /\ ret[1] = n_available
  /\ free_idx_ptr = 2

(***************************************************************************)
(* C4 -- Release/claim round trip on a full pool: a release(k) that is     *)
(* called on a full pool and overlaps no other operation leaves the        *)
(* counter at n_available - 1, and when the next operation is a claim that *)
(* overlaps no other operation, that claim returns k with the counter back *)
(* at n_available and all n_available bits set.                            *)
(***************************************************************************)
RoundTripOnFullPool ==
  [][\A t \in Callers :
       /\ (FreeHint(t) /\ pc'[t] = "idle" /\ call[t] = "solofull")
            => n_allocated_ptr' = U32(n_available - 1)
       /\ (AllocReturn(t) /\ call[t] = "solo" /\ prev # NoIdx)
            => /\ ret[t] = prev
               /\ n_allocated_ptr = U32(n_available)
               /\ SetBits(allocated_ptr) = 0..(n_available - 1)]_vars

RoundTripOnFullPoolWitness ==
  /\ pc[1] = "a_ret" /\ call[1] = "solo"
  /\ n_available = MaxAvailable
  /\ prev = n_available - 1 /\ ret[1] = prev
  /\ hist = "any"

(***************************************************************************)
(* C5 -- Low-index bias of the hint: a release writes the hint only in its *)
(* last step and never writes a value larger than the one it replaces; a   *)
(* release(k) that overlaps no other operation leaves the hint at          *)
(* min(hint before, k).                                                    *)
(***************************************************************************)
LowIndexBias ==
  [][\A t \in Callers :
       /\ FreeStepBeforeHint(t) => free_idx_ptr' = free_idx_ptr
       /\ FreeHint(t) => free_idx_ptr' <= free_idx_ptr
       /\ (FreeHint(t) /\ call[t] \in {"solo", "solofull"})
            => /\ pc'[t] = "idle"
               /\ free_idx_ptr' = Min(free_idx_ptr, idx[t])]_vars

LowIndexBiasWitness ==
  /\ pc[1] = "f_hint" /\ call[1] = "solo"
  /\ idx[1] < free_idx_ptr
  /\ held[1] # {} /\ \E k \in held[1] : k > free_idx_ptr

(***************************************************************************)
(* C6 -- Accounting round-trip: whenever no operation is in flight, the    *)
(* counter equals the number of successful claims minus the number of      *)
(* releases (the number of indices the callers hold) and equals the number *)
(* of set bitmap bits.                                                     *)
(***************************************************************************)
AccountingRoundTrip ==
  (\A t \in Callers : pc[t] = "idle")
    => /\ n_allocated_ptr = U32(HeldCount)
       /\ Cardinality(SetBits(allocated_ptr)) = HeldCount

AccountingRoundTripWitness ==
  /\ \A t \in Callers : pc[t] = "idle"
  /\ hist = "any"
  /\ held[1] # {} /\ held[2] # {}
  /\ HeldCount < n_available
  /\ free_idx_ptr > 0

(***************************************************************************)
(* C7 -- Lock-free progress: whenever caller 1 has an operation in flight  *)
(* and keeps taking steps, some claim or release (of any caller)           *)
(* eventually completes, even though the other callers may be suspended    *)
(* for ever in the middle of their operations.  Stated as: operations      *)
(* complete again and again, or from some point on caller 1 has nothing in *)
(* flight (an operation in flight ends only by completing).                *)
(***************************************************************************)
LockFreeProgress ==
  \/ []<><<\E t \in Callers : Completes(t)>>_vars
  \/ <>[](~InFlight(1))

(***************************************************************************)
(* C8 -- No exhaustion report when demand fits: at the moment a claim      *)
(* decides to return the sentinel, the demand of some caller (the slots it *)
(* holds plus its operation in flight) times the number of callers exceeds *)
(* n_available.  Hence callers that keep their demand at q or less, with   *)
(* NCallers * q <= n_available, never see the sentinel.                    *)
(***************************************************************************)
NoExhaustionWhenDemandFits ==
  [][\A t \in Callers :
       (AllocLoadN(t) /\ pc'[t] = "a_ret")
         => NCallers * MaxDemand > n_available]_vars

NoExhaustionWhenDemandFitsWitness ==
  /\ pc[1] = "a_load_n"
  /\ pc[2] = "f_dec"
  /\ NCallers * MaxDemand <= n_available
  /\ n_allocated_ptr = U32(HeldCount + 1)

(***************************************************************************)
(* C9 -- Layout overflow detection: from every accumulator reached from    *)
(* fx_mem_init_size through successful extensions, fx_mem_update_size      *)
(* returns false whenever the exact value of the padded accumulator plus   *)
(* n_bytes does not fit in 32 bits.                                        *)
(***************************************************************************)
OverflowDetected ==
  [][\A n \in ByteCounts :
       (MemUpdateSize(n) /\ SumWraps(size, n)) => ~ok']_vars

(***************************************************************************)
(* C10 -- Layout composition: for every base address, aligned or not, and  *)
(* every chain of sizes that fx_mem_init_size and fx_mem_update_size       *)
(* accepted without the exact padded sum leaving 32 bits, the addresses    *)
(* fx_mem_align returns for the same sizes from that base are multiples of *)
(* FX_ALIGN, lie at or after the base, delimit ranges that do not overlap  *)
(* and follow each other in call order, and every range ends at or before  *)
(* base + size.                                                            *)
(***************************************************************************)
BlockEnd(i) == WordAdd(res[i], Widen(carved[i]))

SameSizes == carved = SubSeq(sizes, 1, Len(carved))

LayoutComposition ==
  (lpc = "carving" /\ ~wrapped /\ SameSizes)
    => \A i \in 1..Len(res) :
         /\ res[i][1] % FX_ALIGN = 0
         /\ WordLe(base, res[i])
         /\ WordLe(res[i], BlockEnd(i))
         /\ WordLe(BlockEnd(i), WordAdd(base, Widen(size)))
         /\ \A j \in (i + 1)..Len(res) : WordLe(BlockEnd(i), res[j])

LayoutCompositionWitness ==
  /\ lpc = "carving" /\ ~wrapped /\ SameSizes
  /\ Len(res) = MaxChain
  /\ base[1] % FX_ALIGN = 1
  /\ sizes[1] = U32(16) /\ sizes[2] = U32Of(65535, 65488)
  /\ WordAdd(mem, Ptr(1)) = WordAdd(base, Widen(size))

(***************************************************************************)
(* C11 -- Size accumulation value: fx_mem_init_size returns true and sets  *)
(* the accumulator to FX_ALIGN; every fx_mem_update_size(n) of a chain in  *)
(* which no exact value left 32 bits returns true and increases the        *)
(* accumulator by exactly n rounded up to a multiple of FX_ALIGN (by 0 for *)
(* n = 0), so that the accumulator is a multiple of FX_ALIGN and at least  *)
(* the exact sum of all n_bytes of the chain.                              *)
(***************************************************************************)
RECURSIVE SumBytes(_)
SumBytes(s) ==
  IF s = <<>> THEN Ptr(0) ELSE WordAdd(Widen(Head(s)), SumBytes(Tail(s)))

SizeAccumulation ==
  [][/\ MemInitSize => (ok' /\ size' = U32(FX_ALIGN))
     /\ \A n \in ByteCounts :
          (MemUpdateSize(n) /\ ~wrapped')
            => /\ ok'
               /\ Widen(size') = WordAdd(Widen(size), FX_ALIGN_ADDR(Widen(n)))
               /\ (n = U32(0) => size' = size)
               /\ size'[1] % FX_ALIGN = 0
               /\ WordLe(SumBytes(sizes'), Widen(size'))]_vars

SizeAccumulationWitness ==
  /\ lpc = "sizing" /\ ok /\ ~wrapped
  /\ sizes = <<U32(12), U32(0), U32(17)>>
  /\ size = U32(4 * FX_ALIGN)

(***************************************************************************)
(* C12 -- fx_mem_align as claimed: for every cursor and every size, the    *)
(* returned address is the smallest multiple of FX_ALIGN that is >= the    *)
(* cursor, and afterwards the cursor is the returned address plus the size *)
(* (at the width of uintptr_t), not rounded.                               *)
(***************************************************************************)
Returned == res'[Len(res')]

Advanced == carved'[Len(carved')]

IsNextBoundary(r, cursor) ==
  /\ r[1] % FX_ALIGN = 0
  /\ WordLe(cursor, r)
  /\ WordLt(WordSub(r, cursor), Ptr(FX_ALIGN))

Aligns == \E n \in ByteCounts \cup ElementCounts : MemAlign(n)

AlignRoundsUp ==
  [][Aligns => /\ IsNextBoundary(Returned, mem)
               /\ mem' = WordAdd(Returned, Widen(Advanced))]_vars

(***************************************************************************)
(* C12, amended -- for every cursor that is at most the last multiple of   *)
(* FX_ALIGN of the uintptr_t range, fx_mem_align returns the smallest      *)
(* multiple of FX_ALIGN that is >= the cursor (the cursor itself when it   *)
(* is aligned); for the FX_ALIGN - 1 cursors above that boundary it        *)
(* returns 0.  In both cases the cursor afterwards is the returned address *)
(* plus the size modulo the width of uintptr_t, not rounded.               *)
(***************************************************************************)
TopBoundary == ClearLow(WordSub(Ptr(0), Ptr(1)))

AlignRoundsUpBelowTop ==
  [][Aligns =>
       /\ IF WordLe(mem, TopBoundary)
            THEN /\ IsNextBoundary(Returned, mem)
                 /\ (mem[1] % FX_ALIGN = 0 => Returned = mem)
            ELSE Returned = Ptr(0)
       /\ mem' = WordAdd(Returned, Widen(Advanced))]_vars

AlignRoundsUpBelowTopWitness ==
  /\ lpc = "carving" /\ Len(res) = 2
  /\ base = Ptr(43968 + 1) /\ res[1] = Ptr(43968 + FX_ALIGN)
  /\ carved = <<U32(17), U32(12)>>
  /\ res[2] = Ptr(43968 + 3 * FX_ALIGN)
  /\ mem = Ptr(43968 + 3 * FX_ALIGN + 12)

(***************************************************************************)
(* C13 -- Uncontended claim succeeds and terminates: a claim that is       *)
(* called while no operation is in flight and fewer than n_available slots *)
(* are allocated, and that no other operation overlaps, begins at most     *)
(* n_available outer-loop iterations and returns an index below            *)
(* n_available that nobody holds, never the sentinel; when the claiming    *)
(* caller keeps taking steps, the claim returns.  The state it starts from *)
(* is any state left by completed operations, releases included.           *)
(***************************************************************************)
AllHeld == UNION {held[t] : t \in Callers}

Claiming(t) ==
  pc[t] \in {"a_load_idx", "a_cas_idx", "a_load_n", "a_load_w", "a_cas_w",
             "a_inc", "a_ret"}

UncontendedClaim ==
  /\ [](\A t \in Callers :
          (Claiming(t) /\ call[t] = "solo")
            => /\ probes <= n_available
               /\ pc[t] = "a_ret"
                    => /\ ret[t] \in 0..(n_available - 1)
                       /\ ret[t] \notin AllHeld)
  /\ ((Claiming(1) /\ call[1] = "solo")
        ~> (pc[1] = "idle" \/ call[1] = "overlap"))

UncontendedClaimWitness ==
  /\ pc[1] = "a_ret" /\ call[1] = "solo"
  /\ n_available = MaxAvailable /\ probes = n_available
  /\ hist = "any" /\ prev = NoIdx
  /\ ret[1] = 0 /\ held[2] # {}

(***************************************************************************)
(* C14 -- Accounting invariant at every instant: in every reachable state  *)
(* the counter equals the number of set bitmap bits, minus the number of   *)
(* claims that have set their bit and not yet incremented the counter,     *)
(* plus the number of releases that have cleared their bit and not yet     *)
(* decremented it.                                                         *)
(***************************************************************************)
PendingInc == Cardinality({t \in Callers : pc[t] = "a_inc"})

PendingDec == Cardinality({t \in Callers : pc[t] = "f_dec"})

AccountingAtEveryInstant ==
  WordAdd(n_allocated_ptr, U32(PendingInc))
    = U32(Cardinality(SetBits(allocated_ptr)) + PendingDec)

AccountingAtEveryInstantWitness ==
  /\ pc[1] = "a_inc" /\ pc[2] = "f_dec"
  /\ held[1] # {}
  /\ Cardinality(SetBits(allocated_ptr)) = 2
  /\ n_allocated_ptr = U32(2)
  /\ n_allocated[2] # n_allocated_ptr

(***************************************************************************)
(* C15 -- Exhaustion reports as claimed: whenever a claim decides to       *)
(* return the sentinel, then in the state in which it read the counter     *)
(* every slot of the pool either has its bit set or is the slot of a       *)
(* release that has cleared the bit and not yet decremented the counter.   *)
(***************************************************************************)
ReportsFull(t) == AllocLoadN(t) /\ pc'[t] = "a_ret"

FreeSlots == (0..(n_available - 1)) \ SetBits(allocated_ptr)

BeingReleased == {idx[u] : u \in {v \in Callers : pc[v] = "f_dec"}}

SpuriousOnlyForReleasedSlots ==
  [][\A t \in Callers :
       ReportsFull(t) => FreeSlots \subseteq BeingReleased]_vars

(***************************************************************************)
(* C15, amended -- whenever a claim decides to return the sentinel, then   *)
(* in the state in which it read the counter there are at most as many     *)
(* slots with a clear bit as there are releases that have cleared their    *)
(* bit and not yet decremented the counter (the clear slots need not be    *)
(* the slots of those releases); in particular a claim never reports full  *)
(* while a slot is free and no release is in that window.                  *)
(***************************************************************************)
SpuriousOnlyDuringRelease ==
  [][\A t \in Callers :
       ReportsFull(t)
         => /\ Cardinality(FreeSlots) <= PendingDec
            /\ (PendingDec = 0 => FreeSlots = {})]_vars

SpuriousOnlyDuringReleaseWitness ==
  /\ pc[1] = "a_ret" /\ ret[1] = n_available
  /\ pc[2] = "f_dec"
  /\ FreeSlots # {} /\ idx[2] \notin FreeSlots

(***************************************************************************)
(* C16 -- Lowest-free-index reuse in sequential use: while only            *)
(* non-overlapping claims and releases have been called on the             *)
(* zero-initialised pool, every index whose bit is clear is >= the hint    *)
(* whenever no operation is in flight, and every claim that returns an     *)
(* index returns one that is smaller than every index still clear, that    *)
(* is, the smallest index that was free.                                   *)
(***************************************************************************)
LowestFreeReuse ==
  hist # "any"
    => /\ (\A t \in Callers : pc[t] = "idle")
            => \A i \in FreeSlots : i >= free_idx_ptr
       /\ \A t \in Callers :
            (pc[t] = "a_ret" /\ ret[t] < n_available)
              => \A i \in FreeSlots : ret[t] < i

LowestFreeReuseWitness ==
  /\ hist = "seq" /\ pc[2] = "a_ret" /\ ret[2] = 0
  /\ n_available = MaxAvailable
  /\ FreeSlots = {n_available - 1}
  /\ held[1] = {1}
  /\ probes = 1

(***************************************************************************)
(* C17 -- Release touches only its own slot: every step of a release(k)    *)
(* leaves the bitmap as it is, except the step that clears bit k, which    *)
(* changes the word of k by removing bit k and nothing else and leaves     *)
(* every other word as it is; this holds also when k lies outside word 0,  *)
(* from which the first expected value is loaded.                          *)
(***************************************************************************)
FreeRun(t) ==
  \/ FreeLoadWord(t)
  \/ FreeLoadN(t)
  \/ FreeLoadIdx(t)
  \/ FreeCasWord(t)
  \/ FreeDec(t)
  \/ FreeHint(t)

ReleaseFrame ==
  [][\A t \in Callers :
       FreeRun(t)
         => \/ allocated_ptr' = allocated_ptr
            \/ /\ FreeCasWord(t)
               /\ BitOf(idx[t]) \in allocated_ptr[SlotOf(idx[t]) + 1]
               /\ \A w \in 1..Len(allocated_ptr) :
                    allocated_ptr'[w] =
                      IF w = SlotOf(idx[t]) + 1
                        THEN allocated_ptr[w] \ {BitOf(idx[t])}
                        ELSE allocated_ptr[w]]_vars

ReleaseFrameWitness ==
  /\ Len(allocated_ptr) = 2
  /\ pc[1] = "f_dec" /\ idx[1] = FX_BMEW
  /\ allocated_ptr[2] = {}
  /\ allocated_ptr[1] = 0..(FX_BMEW - 1)
  /\ pc[2] = "a_inc" /\ idx[2] = FX_BMEW - 1

(***************************************************************************)
(* C18 -- Effect of a failed claim: a claim changes the bitmap or the      *)
(* counter only in steps after which it is bound to return its index (it   *)
(* has set its bit, and stays so bound until it returns), so a claim that  *)
(* returns the sentinel has changed neither; the decision to return the    *)
(* sentinel itself changes no shared state.  The only other shared state a *)
(* claim writes is the hint, which the compare-exchange of each outer-loop *)
(* iteration sets to (hint + 1) mod n_available, and that compare-exchange *)
(* is the only way to the exhaustion check.                                *)
(***************************************************************************)
ClaimRun(t) ==
  \/ AllocLoadIdx(t)
  \/ AllocCasIdx(t)
  \/ AllocLoadN(t)
  \/ AllocLoadWord(t)
  \/ AllocCasWord(t)
  \/ AllocInc(t)
  \/ AllocReturn(t)

Succeeding(t) ==
  \/ pc[t] = "a_inc"
  \/ pc[t] = "a_ret" /\ ret[t] < n_available

FailedClaimFrame ==
  [][\A t \in Callers :
       ClaimRun(t)
         => /\ (allocated_ptr' # allocated_ptr
                  \/ n_allocated_ptr' # n_allocated_ptr) => Succeeding(t)'
            /\ Succeeding(t) => (pc'[t] = "idle" \/ Succeeding(t)')
            /\ (pc'[t] = "a_ret" /\ ret'[t] = n_available)
                 => (AllocLoadN(t) /\ shared' = shared)
            /\ (free_idx_ptr' # free_idx_ptr
                  \/ (pc[t] # "a_load_n" /\ pc'[t] = "a_load_n"))
                 => /\ AllocCasIdx(t)
                    /\ free_idx_ptr' = (free_idx_ptr + 1) % n_available]_vars

FailedClaimFrameWitness ==
  /\ pc[1] = "a_ret" /\ ret[1] = n_available
  /\ n_available = MaxAvailable
  /\ call[1] = "overlap" /\ pc[2] = "f_dec"
  /\ free_idx_ptr = 1
  /\ n_allocated_ptr = U32(n_available)

(***************************************************************************)
(* C19 -- Index range invariant: in every interleaving of claims and of    *)
(* releases of held indices the hint is in 0 .. n_available - 1, every     *)
(* index a claim probes, and every index it returns, is in                 *)
(* 0 .. n_available - 1, and no bitmap bit at a position >= n_available    *)
(* (the unused high bits of the last word) is set.                         *)
(***************************************************************************)
Indices == 0..(n_available - 1)

IndexRange ==
  /\ free_idx_ptr \in Indices
  /\ SetBits(allocated_ptr) \subseteq Indices
  /\ \A t \in Callers :
       /\ Claiming(t) => idx[t] \in Indices
       /\ (pc[t] = "a_ret" /\ ret[t] # n_available) => ret[t] \in Indices
       /\ held[t] \subseteq Indices

IndexRangeWitness ==
  /\ n_available > FX_BMEW /\ n_available % FX_BMEW # 0
  /\ pc[1] = "a_ret" /\ ret[1] = n_available - 1
  /\ free_idx_ptr = 0
  /\ allocated_ptr[2] = {0}
  /\ held[2] = {FX_BMEW - 1}

(***************************************************************************)
(* C20 -- Count bounds as claimed: in every reachable state the counter is *)
(* within 0 .. n_available; it neither wraps below zero nor exceeds the    *)
(* capacity of the pool.                                                   *)
(***************************************************************************)
CountWithinCapacity == WordLe(n_allocated_ptr, U32(n_available))

(***************************************************************************)
(* C20, amended -- in every reachable state the counter is within          *)
(* 0 .. n_available + r, where r is the number of releases that have       *)
(* cleared their bit and not yet decremented the counter: it never wraps   *)
(* below zero, and it exceeds the capacity only while such a release is in *)
(* progress, by at most the number of such releases.                       *)
(***************************************************************************)
CountWithinCapacityPlusReleases ==
  WordLe(n_allocated_ptr, U32(n_available + PendingDec))

CountWithinCapacityPlusReleasesWitness ==
  /\ n_allocated_ptr = U32(n_available + 1)
  /\ pc[2] = "f_dec"
  /\ pc[1] = "a_ret" /\ ret[1] = idx[2]
  /\ n_available = MaxAvailable

(***************************************************************************)
(* C21 -- Order of operations of fx_mem_update_size as claimed: a call     *)
(* that returns true leaves the accumulator at the old accumulator rounded *)
(* up to a multiple of FX_ALIGN, plus n_bytes.                             *)
(***************************************************************************)
PadsThenAdds ==
  [][\A n \in ByteCounts :
       (MemUpdateSize(n) /\ ok')
         => size' = WordAdd(FX_ALIGN_ADDR(size), n)]_vars

(***************************************************************************)
(* C21, amended -- a call of fx_mem_update_size that returns true first    *)
(* adds n_bytes to the accumulator and then rounds the sum up to a         *)
(* multiple of FX_ALIGN: the accumulator becomes the low 32 bits of the    *)
(* exact sum of the old accumulator and n_bytes rounded up, which is a     *)
(* multiple of FX_ALIGN.                                                   *)
(***************************************************************************)
Low32(w) == SubSeq(w, 1, U32Limbs)

AddsThenPads ==
  [][\A n \in ByteCounts :
       (MemUpdateSize(n) /\ ok')
         => /\ size' = Low32(FX_ALIGN_ADDR(WordAdd(Widen(size), Widen(n))))
            /\ size'[1] % FX_ALIGN = 0]_vars

AddsThenPadsWitness ==
  /\ lpc = "sizing" /\ ok
  /\ sizes = <<U32(12), U32(12)>>
  /\ size = U32(3 * FX_ALIGN)

(***************************************************************************)
(* C22 -- fx_mem_update_size leaves the accumulator untouched on failure:  *)
(* a call that returns false leaves the accumulator at the value it had    *)
(* before the call, and a call that changes the accumulator returns true.  *)
(***************************************************************************)
UntouchedOnFailure ==
  [][\A n \in ByteCounts :
       MemUpdateSize(n)
         => /\ ~ok' => size' = size
            /\ size' # size => ok']_vars

UntouchedOnFailureWitness ==
  /\ lpc = "sizing" /\ ~ok
  /\ sizes = <<U32(16), U32Of(65535, 65505)>>
  /\ size = U32(2 * FX_ALIGN)

TypeOK ==
  /\ n_available \in 1..MaxAvailable
  /\ free_idx_ptr \in 0..(n_available - 1)
  /\ \A t \in Callers : held[t] \subseteq 0..(n_available - 1)
====
